---- MODULE Spec2Model ----
(***************************************************************************)
(* Greenhouse Gas Lab (streamlit_app.py): the session state, the sidebar   *)
(* and button handlers, and the simulation loop, as a state machine.       *)
(*                                                                         *)
(* Units.  Time is counted in ticks of dt = 0.1 minute, so the loop's      *)
(* `current_time += dt` is +1 and the terminal time 20.0 is a tick count.  *)
(* Temperatures are fixed-point, in thousandths of a degree Celsius; the   *)
(* cooling rate is fixed-point in ten-thousandths.  Divisions round toward *)
(* minus infinity, the worst case for the floor at ambient.                *)
(*                                                                         *)
(* Python lists are objects: st.session_state.history_time holds a         *)
(* reference, and saved_runs stores that same reference.  Only the list    *)
(* objects bound to history_time and history_temp are ever written to      *)
(* (append), so an archive entry holds either an alias of one of those two *)
(* live objects or a detached list object, which nothing can change any    *)
(* more and which is therefore represented by its contents.  The variables *)
(* history_time and history_temp are the contents of the live objects.     *)
(*                                                                         *)
(* Scheduling.  A widget event (button, selectbox, slider) starts a rerun  *)
(* of the script; the handler of the event runs in that rerun, top to      *)
(* bottom.  A rerun that finds is_running set enters the loop of section 7 *)
(* and is interrupted by the next widget event at one of the loop's        *)
(* Streamlit calls (update_ui), that is between two iterations.            *)
(***************************************************************************)
EXTENDS Integers, Sequences, FiniteSets, TLC

\* ---------------------------------------------------------------- bounds
\* Run length in ticks.  The code runs to 20.0 minutes = 200 ticks of 0.1;
\* the model is checked with a shorter run that still passes the archive
\* threshold of 10 samples.
TerminalTicks == 12

\* Number of slider moves (intensity or concentration) in one behaviour.
MaxSliderMoves == 2

\* The completion-notice counter saturates here (it only has to tell
\* 0, 1 and "more than once" apart).
MaxNotices == 2

\* --------------------------------------------------- program constants
\* AMBIENT_TEMP = 20.0, in thousandths of a degree.
AMBIENT_TEMP == 20000

\* len(history_time) > 10
ArchiveMinSamples == 10

\* dt = 0.1 minute: ticks per minute.
TicksPerMinute == 10

\* base_cooling = 1.5, in ten-thousandths.
base_cooling == 15000

\* heat_gain = intensity * 1.5, in thousandths of a degree per minute.
HeatPerIntensity == 1500

\* Scale of the fixed-point cooling rate (ten-thousandths).
RateScale == 10000

\* Scale of the fixed-point insulation factor and of concentration / 1000.0.
PpmScale == 1000

\* Slider defaults (st.sidebar.slider(..., 1, 10, 5) and (..., 0, 1000, 500)).
DefaultIntensity == 5

DefaultConcentration == 500

\* Upper end of the concentration slider (0 .. 1000 ppm).
MaxConcentration == 1000

\* GAS_PROPERTIES: the catalog.
GasNames == {"Nitrogen (N2)", "Oxygen (O2)", "Carbon Dioxide (CO2)", "Methane (CH4)"}

Insulation(g) ==
    CASE g = "Nitrogen (N2)" -> 1
      [] g = "Oxygen (O2)" -> 1
      [] g = "Carbon Dioxide (CO2)" -> 4
      [] g = "Methane (CH4)" -> 8

Color(g) ==
    CASE g = "Nitrogen (N2)" -> "#1f77b4"
      [] g = "Oxygen (O2)" -> "#2ca02c"
      [] g = "Carbon Dioxide (CO2)" -> "#ff7f0e"
      [] g = "Methane (CH4)" -> "#d62728"

\* First key of the catalog: the selectbox default and the initial selected_gas.
DefaultGas == "Nitrogen (N2)"

\* Values the intensity slider (1..10) and the concentration slider
\* (0..1000) are moved to in the model: both ends and the default.
IntensityValues == {1, 5, 10}

ConcentrationValues == {0, 500, 1000}

\* saved_runs = {}
EmptyRuns == [g \in {} |-> 0]

VARIABLES
    is_running,     \* st.session_state.is_running
    current_time,   \* st.session_state.current_time, in ticks
    current_temp,   \* st.session_state.current_temp, in thousandths
    history_time,   \* the list bound to st.session_state.history_time
    history_temp,   \* the list bound to st.session_state.history_temp
    selected_gas,   \* st.session_state.selected_gas
    saved_runs,     \* st.session_state.saved_runs: gas name -> [Time, Temp, Color]
    gas_name,       \* value of the selectbox
    intensity,      \* value of the intensity slider
    concentration,  \* value of the concentration slider
    notices,        \* st.success("Simulation Complete!") calls since the last reset
    sliderMoves,    \* slider moves so far
    lastCmd         \* the operation that produced this state

vars == <<is_running, current_time, current_temp, history_time, history_temp,
          selected_gas, saved_runs, gas_name, intensity, concentration,
          notices, sliderMoves, lastCmd>>

\* ------------------------------------------------------- list references
\* A reference to the list object bound to history_time / history_temp.
AliasOf(name) == [alias |-> name, items |-> << >>]

\* A reference to a list object that is no longer bound to the live state.
Detached(items) == [alias |-> "none", items |-> items]

\* The contents a reference leads to, given the live lists ht and hT.
Deref(r, ht, hT) ==
    IF r.alias = "history_time" THEN ht
    ELSE IF r.alias = "history_temp" THEN hT
    ELSE r.items

\* The archive, dereferenced: what a reader of saved_runs sees.
ArchiveView ==
    [g \in DOMAIN saved_runs |->
        [Time  |-> Deref(saved_runs[g].Time, history_time, history_temp),
         Temp  |-> Deref(saved_runs[g].Temp, history_time, history_temp),
         Color |-> saved_runs[g].Color]]

\* The archive entries that hold one of the live list objects.
AliasedGases == {g \in DOMAIN saved_runs :
                    saved_runs[g].Time.alias # "none" \/ saved_runs[g].Temp.alias # "none"}

\* ------------------------------------------------------------- physics
\* Variant: the insulation is not scaled by the concentration.
insulation_factorUnscaled(g, conc) ==
    IF Insulation(g) > 1
    THEN PpmScale + (Insulation(g) - 1) * PpmScale
    ELSE PpmScale

\* insulation_factor, times PpmScale (lines 281-286).
insulation_factor(g, conc) ==
    IF Insulation(g) > 1
    THEN PpmScale + (Insulation(g) - 1) * conc
    ELSE PpmScale

\* Variant: base_cooling is multiplied by the insulation factor.
cooling_rateMultiplied(g, conc) == (base_cooling * insulation_factor(g, conc)) \div PpmScale

\* cooling_rate = base_cooling / insulation_factor (line 288), in ten-thousandths.
cooling_rate(g, conc) == (base_cooling * PpmScale) \div insulation_factor(g, conc)

\* net_change = (heat_gain - heat_loss) * dt (lines 305-309).
net_change(temp, inten, rate) ==
    LET heat_gain == inten * HeatPerIntensity
        temp_diff == temp - AMBIENT_TEMP
        heat_loss == (temp_diff * rate) \div RateScale
    IN  (heat_gain - heat_loss) \div TicksPerMinute

\* The floor at ambient (lines 314-315).
ClampToAmbient(temp) == IF temp < AMBIENT_TEMP THEN AMBIENT_TEMP ELSE temp

\* current_temp after one step (lines 311, 314-315).
StepTemp(temp, inten, rate) == ClampToAmbient(temp + net_change(temp, inten, rate))

\* ------------------------------------------------------- list objects
\* The archive once history_time and history_temp are bound to new list
\* objects: entries that held the old objects keep them, now detached.
DetachAll(sr, ht, hT) ==
    [g \in DOMAIN sr |->
        [Time  |-> Detached(Deref(sr[g].Time, ht, hT)),
         Temp  |-> Detached(Deref(sr[g].Temp, ht, hT)),
         Color |-> sr[g].Color]]

\* Variant: the live lists are emptied in place (history_time.clear();
\* history_time.append(0.0)) instead of being rebound to new objects.
RebindHistoryInPlace(sr) ==
    /\ history_time' = <<0>>
    /\ history_temp' = <<AMBIENT_TEMP>>
    /\ saved_runs' = sr

\* history_time = [0.0]; history_temp = [AMBIENT_TEMP]: the references are
\* rebound to two new list objects (lines 111-112 and 243-244).  sr is the
\* archive at that point.
RebindHistory(sr) ==
    /\ history_time' = <<0>>
    /\ history_temp' = <<AMBIENT_TEMP>>
    /\ saved_runs' = DetachAll(sr, history_time, history_temp)

\* Variant: the threshold is off by one (>= 10 instead of > 10).
ArchiveEligibleOffByOne(n) == n >= ArchiveMinSamples

\* Only save if they actually ran it for a bit (line 99).
ArchiveEligible(n) == n > ArchiveMinSamples

\* Variant: the dict is replaced instead of one key being set
\* (saved_runs = {prev_gas: ...}).
ArchiveRunReplacingDict(sr, prev_gas) ==
    [g \in {prev_gas} |->
        [Time  |-> AliasOf("history_time"),
         Temp  |-> AliasOf("history_temp"),
         Color |-> Color(prev_gas)]]

\* saved_runs[prev_gas] = {"Time": st.session_state.history_time, "Temp":
\* st.session_state.history_temp, "Color": ...} (lines 100-105): the entry
\* holds the live list objects themselves.
ArchiveRun(sr, prev_gas) ==
    [g \in DOMAIN sr \cup {prev_gas} |->
        IF g = prev_gas
        THEN [Time  |-> AliasOf("history_time"),
              Temp  |-> AliasOf("history_temp"),
              Color |-> Color(prev_gas)]
        ELSE sr[g]]

\* ---------------------------------------------------------------- Init
\* Session-state initialisation (lines 42-57) and the widget defaults.
Init ==
    /\ is_running = FALSE
    /\ current_time = 0
    /\ current_temp = AMBIENT_TEMP
    /\ history_time = <<0>>
    /\ history_temp = <<AMBIENT_TEMP>>
    /\ selected_gas = DefaultGas
    /\ saved_runs = EmptyRuns
    /\ gas_name = DefaultGas
    /\ intensity = DefaultIntensity
    /\ concentration = DefaultConcentration
    /\ notices = 0
    /\ sliderMoves = 0
    /\ lastCmd = "Init"

\* ------------------------------------------------------------- handlers
\* Variant: Play starts the run over.
PlayRestarts ==
    /\ is_running' = TRUE
    /\ current_time' = 0
    /\ current_temp' = AMBIENT_TEMP
    /\ RebindHistory(saved_runs)
    /\ lastCmd' = "Play"
    /\ UNCHANGED <<selected_gas, gas_name, intensity, concentration, notices,
                   sliderMoves>>

\* if st.button("Play"): is_running = True (lines 233-234).
Play ==
    /\ is_running' = TRUE
    /\ lastCmd' = "Play"
    /\ UNCHANGED <<current_time, current_temp, history_time, history_temp,
                   selected_gas, saved_runs, gas_name, intensity,
                   concentration, notices, sliderMoves>>

\* if st.button("II Pause"): is_running = False (lines 236-237).
Pause ==
    /\ is_running' = FALSE
    /\ lastCmd' = "Pause"
    /\ UNCHANGED <<current_time, current_temp, history_time, history_temp,
                   selected_gas, saved_runs, gas_name, intensity,
                   concentration, notices, sliderMoves>>

\* Variant: Reset leaves the history lists as they are.
ResetKeepsHistory ==
    /\ is_running' = FALSE
    /\ current_time' = 0
    /\ current_temp' = AMBIENT_TEMP
    /\ notices' = 0
    /\ lastCmd' = "Reset"
    /\ UNCHANGED <<history_time, history_temp, saved_runs, selected_gas,
                   gas_name, intensity, concentration, sliderMoves>>

\* Variant: Reset saves the interrupted run before clearing it.
ResetArchiving ==
    /\ is_running' = FALSE
    /\ current_time' = 0
    /\ current_temp' = AMBIENT_TEMP
    /\ RebindHistory(IF ArchiveEligible(Len(history_time))
                     THEN ArchiveRun(saved_runs, selected_gas)
                     ELSE saved_runs)
    /\ notices' = 0
    /\ lastCmd' = "Reset"
    /\ UNCHANGED <<selected_gas, gas_name, intensity, concentration, sliderMoves>>

\* Variant: Reset puts the temperature at 0.0 instead of AMBIENT_TEMP.
ResetToZero ==
    /\ is_running' = FALSE
    /\ current_time' = 0
    /\ current_temp' = 0
    /\ history_time' = <<0>>
    /\ history_temp' = <<0>>
    /\ saved_runs' = DetachAll(saved_runs, history_time, history_temp)
    /\ notices' = 0
    /\ lastCmd' = "Reset"
    /\ UNCHANGED <<selected_gas, gas_name, intensity, concentration, sliderMoves>>

\* if st.button("Reset"): ... st.rerun() (lines 239-245).
Reset ==
    /\ is_running' = FALSE
    /\ current_time' = 0
    /\ current_temp' = AMBIENT_TEMP
    /\ RebindHistory(saved_runs)
    /\ notices' = 0
    /\ lastCmd' = "Reset"
    /\ UNCHANGED <<selected_gas, gas_name, intensity, concentration, sliderMoves>>

\* Variant: the archive is cleared only while the simulation is stopped.
ClearHistoryWhenStopped ==
    /\ saved_runs' = IF is_running THEN saved_runs ELSE EmptyRuns
    /\ lastCmd' = "ClearHistory"
    /\ UNCHANGED <<is_running, current_time, current_temp, history_time,
                   history_temp, selected_gas, gas_name, intensity,
                   concentration, notices, sliderMoves>>

\* if st.sidebar.button("Clear Graph History"): saved_runs = {}; st.rerun()
\* (lines 92-94).
ClearHistory ==
    /\ saved_runs' = EmptyRuns
    /\ lastCmd' = "ClearHistory"
    /\ UNCHANGED <<is_running, current_time, current_temp, history_time,
                   history_temp, selected_gas, gas_name, intensity,
                   concentration, notices, sliderMoves>>

\* Variant: the reset is done first and the save is decided afterwards, on
\* the history that was just reset.
GasChangeResetFirst(g) ==
    LET sr == IF ArchiveEligible(Len(<<0>>))
              THEN ArchiveRun(saved_runs, selected_gas)
              ELSE saved_runs
    IN  /\ is_running' = FALSE
        /\ current_time' = 0
        /\ current_temp' = AMBIENT_TEMP
        /\ RebindHistory(sr)
        /\ selected_gas' = g
        /\ notices' = 0

\* The auto-reset (lines 97-126), reached with the selectbox at g: save the
\* old run if it has data, then reset everything for the new gas.
GasChange(g) ==
    LET sr == IF ArchiveEligible(Len(history_time))
              THEN ArchiveRun(saved_runs, selected_gas)
              ELSE saved_runs
    IN  /\ is_running' = FALSE
        /\ current_time' = 0
        /\ current_temp' = AMBIENT_TEMP
        /\ RebindHistory(sr)
        /\ selected_gas' = g
        /\ notices' = 0

\* The selectbox is moved to g (line 86) and the script reruns.
SelectGas(g) ==
    /\ g # gas_name
    /\ gas_name' = g
    /\ lastCmd' = "SelectGas"
    /\ IF g # selected_gas
       THEN GasChange(g)
       ELSE UNCHANGED <<saved_runs, is_running, current_time, current_temp,
                        history_time, history_temp, selected_gas, notices>>
    /\ UNCHANGED <<intensity, concentration, sliderMoves>>

\* The intensity slider is moved (line 87); the rerun has no handler for it.
SetIntensity(i) ==
    /\ sliderMoves < MaxSliderMoves
    /\ i # intensity
    /\ intensity' = i
    /\ sliderMoves' = sliderMoves + 1
    /\ lastCmd' = "SetIntensity"
    /\ UNCHANGED <<is_running, current_time, current_temp, history_time,
                   history_temp, selected_gas, saved_runs, gas_name,
                   concentration, notices>>

\* The concentration slider is moved (line 88).
SetConcentration(c) ==
    /\ sliderMoves < MaxSliderMoves
    /\ c # concentration
    /\ concentration' = c
    /\ sliderMoves' = sliderMoves + 1
    /\ lastCmd' = "SetConcentration"
    /\ UNCHANGED <<is_running, current_time, current_temp, history_time,
                   history_temp, selected_gas, saved_runs, gas_name,
                   intensity, notices>>

\* ------------------------------------------------------ simulation loop
\* Variant: the terminal time is included (<= 20.0).
LoopGuardInclusive == is_running /\ current_time <= TerminalTicks

\* while is_running and current_time < 20.0 (line 301).
LoopGuard == is_running /\ current_time < TerminalTicks

\* Variant: the time is appended as it was before the step.
AppendTimeStale(ht, t) == Append(ht, t - 1)

\* history_time.append(current_time) (line 317).
AppendTime(ht, t) == Append(ht, t)

\* Variant: the second append is missing.
AppendTempMissing(hT, temp) == hT

\* history_temp.append(current_temp) (line 318).
AppendTemp(hT, temp) == Append(hT, temp)

\* One iteration of the loop (lines 300-331): physics step, floor, append.
PhysicsStep ==
    /\ is_running
    /\ LoopGuard
    /\ LET temp == StepTemp(current_temp, intensity,
                            cooling_rate(gas_name, concentration))
       IN  /\ current_temp' = temp
           /\ current_time' = current_time + 1
           /\ history_time' = AppendTime(history_time, current_time + 1)
           /\ history_temp' = AppendTemp(history_temp, temp)
    /\ lastCmd' = "PhysicsStep"
    /\ UNCHANGED <<is_running, selected_gas, saved_runs, gas_name, intensity,
                   concentration, notices, sliderMoves>>

\* Variant: the loop is left but is_running is not cleared.
CompleteStillRunning ==
    /\ is_running
    /\ ~LoopGuard
    /\ current_time >= TerminalTicks
    /\ is_running' = TRUE
    /\ notices' = IF notices < MaxNotices THEN notices + 1 ELSE notices
    /\ lastCmd' = "Complete"
    /\ UNCHANGED <<current_time, current_temp, history_time, history_temp,
                   selected_gas, saved_runs, gas_name, intensity,
                   concentration, sliderMoves>>

\* The loop is left at the terminal time (lines 300-301, 333-335).
Complete ==
    /\ is_running
    /\ ~LoopGuard
    /\ current_time >= TerminalTicks
    /\ is_running' = FALSE
    /\ notices' = IF notices < MaxNotices THEN notices + 1 ELSE notices
    /\ lastCmd' = "Complete"
    /\ UNCHANGED <<current_time, current_temp, history_time, history_temp,
                   selected_gas, saved_runs, gas_name, intensity,
                   concentration, sliderMoves>>

\* ------------------------------------------------------------ rendering
\* One line of the chart: a frame of all_dfs with its entry of domain and
\* range_colors.
Series(gas, time, temp, color) ==
    [Gas |-> gas, Time |-> time, Temperature |-> temp, Color |-> color]

\* The orders in which saved_runs.items() can yield the keys of the dict
\* (a dict yields its keys in insertion order, which the model does not
\* record: every order is taken).
ItemOrders(D) ==
    {ord \in [1 .. Cardinality(D) -> D] :
        \A i, j \in 1 .. Cardinality(D) : i # j => ord[i] # ord[j]}

\* Variant: the saved version of the current gas is not skipped.
SavedSeriesUnfiltered(view, ord, current_gas_name) ==
    [k \in 1 .. Len(ord) |->
        Series(ord[k], view[ord[k]].Time, view[ord[k]].Temp, view[ord[k]].Color)]

\* The loop over saved_runs.items() (lines 180-190): the saved runs of the
\* other gases, in the order ord of the dict.
SavedSeries(view, ord, current_gas_name) ==
    LET kept == SelectSeq(ord, LAMBDA g : g # current_gas_name)
    IN  [k \in 1 .. Len(kept) |->
            Series(kept[k], view[kept[k]].Time, view[kept[k]].Temp,
                   view[kept[k]].Color)]

\* plot_comparison_chart (lines 162-193): the current data first, then the
\* saved data.
plot_comparison_chart(history_t, history_T, current_gas_name, current_color, ord) ==
    <<Series(current_gas_name, history_t, history_T, current_color)>>
        \o SavedSeries(ArchiveView, ord, current_gas_name)

\* What update_ui draws (lines 219, 291-298, 321-328), for the dict order ord.
Chart(ord) ==
    plot_comparison_chart(history_time, history_temp, gas_name, Color(gas_name), ord)

\* ------------------------------------------------------- specifications
\* The commands and the loop, with the sliders left at their defaults.
Next ==
    \/ Play
    \/ Pause
    \/ Reset
    \/ ClearHistory
    \/ \E g \in GasNames : SelectGas(g)
    \/ PhysicsStep
    \/ Complete

Spec == Init /\ [][Next]_vars

\* The script thread runs the loop to its end unless a rerun interrupts it.
FairSpec == Spec /\ WF_vars(PhysicsStep) /\ WF_vars(Complete)

\* The gas is changed before the run has data to save.
SelectGasEarly(g) == ~ArchiveEligible(Len(history_time)) /\ SelectGas(g)

\* The inputs of the physics step change between steps: a user who moves
\* the sliders at any moment and changes gas only early in a run.
NextInputs ==
    \/ Play
    \/ Pause
    \/ Reset
    \/ \E g \in GasNames : SelectGasEarly(g)
    \/ \E i \in IntensityValues : SetIntensity(i)
    \/ \E c \in ConcentrationValues : SetConcentration(c)
    \/ PhysicsStep
    \/ Complete

SpecInputs == Init /\ [][NextInputs]_vars

\* The concentration slider is moved anywhere in its range (line 88).
SlideConcentration(c) ==
    /\ c # concentration
    /\ concentration' = c
    /\ lastCmd' = "SlideConcentration"
    /\ UNCHANGED <<is_running, current_time, current_temp, history_time,
                   history_temp, selected_gas, saved_runs, gas_name,
                   intensity, notices, sliderMoves>>

\* The inputs of the cooling rate: every gas of the catalog and every
\* concentration of the slider, before any run.
NextCooling ==
    \/ \E g \in GasNames : SelectGasEarly(g)
    \/ \E c \in 0 .. MaxConcentration : SlideConcentration(c)

SpecCooling == Init /\ [][NextCooling]_vars

\* ----------------------------------------------------------------- claims
\* C1: a Reset, from any reachable state, yields current_time = 0.0,
\* current_temp = 20.0, history_time = [0.0], history_temp = [20.0] and
\* is_running = False, and leaves the archive and the selected gas as they
\* were.
C1_ResetRestoresDefaults ==
    [][Reset => /\ current_time' = 0
                /\ current_temp' = AMBIENT_TEMP
                /\ history_time' = <<0>>
                /\ history_temp' = <<AMBIENT_TEMP>>
                /\ ~is_running'
                /\ ArchiveView' = ArchiveView
                /\ selected_gas' = selected_gas]_vars

\* A Reset has acted on a session that holds archived runs of two gases and
\* has a third gas selected.
C1_Witness ==
    /\ lastCmd = "Reset"
    /\ Cardinality(DOMAIN saved_runs) >= 2
    /\ selected_gas \notin DOMAIN saved_runs
    /\ history_time = <<0>>

\* C2: a gas switch from A to B with 10 or fewer live samples leaves the
\* archive unchanged; with more than 10 samples the archive afterwards maps
\* A to the live series as they were at the switch, with A's color, and
\* every other key is unchanged.  No other operation adds an archive key.
C2_ArchiveOnSwitchOnly ==
    [][/\ \A g \in GasNames :
            (SelectGas(g) /\ g # selected_gas) =>
                IF Len(history_time) > ArchiveMinSamples
                THEN ArchiveView' =
                        [k \in DOMAIN saved_runs \cup {selected_gas} |->
                            IF k = selected_gas
                            THEN [Time  |-> history_time,
                                  Temp  |-> history_temp,
                                  Color |-> Color(selected_gas)]
                            ELSE ArchiveView[k]]
                ELSE ArchiveView' = ArchiveView
       /\ lastCmd' # "SelectGas" => DOMAIN saved_runs' \subseteq DOMAIN saved_runs]_vars

\* A gas switch has just archived a run next to an older entry.
C2_Witness ==
    /\ lastCmd = "SelectGas"
    /\ Cardinality(DOMAIN saved_runs) >= 2
    /\ \E g \in DOMAIN saved_runs : Len(ArchiveView[g].Time) = ArchiveMinSamples + 1

\* C3: the archived series of a gas A are not changed by later mutations of
\* the live state (a loop iteration, the end of the loop, Play, Pause, Reset,
\* a gas switch made while another gas is selected), and no archive entry
\* holds a list object that is still bound to the live history.
C3_DeepCopy ==
    [][/\ AliasedGases' = {}
       /\ \A A \in DOMAIN saved_runs :
            (\/ lastCmd' \in {"PhysicsStep", "Complete", "Play", "Pause", "Reset"}
             \/ (lastCmd' = "SelectGas" /\ selected_gas # A))
            => (A \in DOMAIN saved_runs' /\ ArchiveView'[A] = ArchiveView[A])]_vars

\* A run of another gas has grown past the archive threshold while an
\* archived run is held.
C3_Witness ==
    /\ lastCmd = "PhysicsStep"
    /\ Len(history_time) > ArchiveMinSamples
    /\ \E A \in DOMAIN saved_runs : A # selected_gas

\* C4: the loop advances current_time by one dt per iteration and only below
\* the terminal time, and a running simulation always stops: the loop never
\* runs forever.
C4_LoopTerminates ==
    /\ [][PhysicsStep => (current_time < TerminalTicks
                          /\ current_time' = current_time + 1)]_vars
    /\ (is_running ~> ~is_running)

\* A run went from 0 to the terminal time and stopped.
C4_Witness ==
    /\ lastCmd = "Complete"
    /\ ~is_running
    /\ current_time = TerminalTicks
    /\ Len(history_time) = TerminalTicks + 1

\* C5: the completion notice is surfaced at most once between two resets
\* (Reset or gas switch).
C5_NoticeOncePerRun == notices <= 1

\* C6: a Play issued when current_time >= 20.0 does not set is_running.
C6_PlayGuarded ==
    [][(Play /\ current_time >= TerminalTicks) => ~is_running']_vars

\* C7: current_temp and every element of history_temp are at least ambient,
\* whatever the sliders and the gas are moved to between steps.
C7_TempAtLeastAmbient ==
    /\ current_temp >= AMBIENT_TEMP
    /\ \A k \in 1 .. Len(history_temp) : history_temp[k] >= AMBIENT_TEMP

\* After a slider move the bottle has cooled during a step, toward ambient.
C7_Witness ==
    /\ sliderMoves > 0
    /\ lastCmd = "PhysicsStep"
    /\ \E k \in 1 .. Len(history_temp) - 1 : history_temp[k + 1] < history_temp[k]

\* C8: history_time and history_temp have the same length.
C8_EqualLengths == Len(history_time) = Len(history_temp)

\* A loop iteration has appended to the history of a later run.
C8_Witness ==
    /\ lastCmd = "PhysicsStep"
    /\ Len(history_time) > 1
    /\ DOMAIN saved_runs # {}

\* C9: a change of gas from A to B resets the simulation (is_running False,
\* time 0.0, temperature 20.0, history [0.0] / [20.0], selected gas B), and
\* the decision to archive is taken on the history as it was before the
\* reset.
C9_ArchiveThenReset ==
    [][\A g \in GasNames :
          (SelectGas(g) /\ g # selected_gas) =>
              /\ ~is_running'
              /\ current_time' = 0
              /\ current_temp' = AMBIENT_TEMP
              /\ history_time' = <<0>>
              /\ history_temp' = <<AMBIENT_TEMP>>
              /\ selected_gas' = g
              /\ Len(history_time) > ArchiveMinSamples =>
                    /\ selected_gas \in DOMAIN saved_runs'
                    /\ ArchiveView'[selected_gas].Time = history_time
                    /\ ArchiveView'[selected_gas].Temp = history_temp
              /\ (Len(history_time) <= ArchiveMinSamples
                  /\ selected_gas \notin DOMAIN saved_runs) =>
                    selected_gas \notin DOMAIN saved_runs']_vars

\* A gas switch has reset the simulation and archived the run it interrupted.
C9_Witness ==
    /\ lastCmd = "SelectGas"
    /\ history_time = <<0>>
    /\ current_time = 0
    /\ \E A \in DOMAIN saved_runs :
          /\ A # selected_gas
          /\ Len(ArchiveView[A].Time) \in (ArchiveMinSamples + 1) .. TerminalTicks

\* C10, as stated: once an entry exists for gas A, its value is the same in
\* every later state until ClearHistory.
C10_NeverReplaced ==
    [][\A A \in DOMAIN saved_runs :
          lastCmd' = "ClearHistory"
          \/ (A \in DOMAIN saved_runs' /\ ArchiveView'[A] = ArchiveView[A])]_vars

\* C10, amended: an entry for gas A keeps its value until ClearHistory, or
\* until a gas switch away from A with more than 10 live samples replaces
\* it; only ClearHistory removes an entry.
C10_ReplacedOnlyByOwnGas ==
    [][\A A \in DOMAIN saved_runs :
          \/ lastCmd' = "ClearHistory"
          \/ /\ lastCmd' = "SelectGas"
             /\ selected_gas = A
             /\ selected_gas' # A
             /\ Len(history_time) > ArchiveMinSamples
             /\ A \in DOMAIN saved_runs'
          \/ (A \in DOMAIN saved_runs' /\ ArchiveView'[A] = ArchiveView[A])]_vars

\* The gas of an archived run is selected again, has a new run past the
\* archive threshold, and the archive still holds the older run.
C10_Witness ==
    /\ selected_gas \in DOMAIN saved_runs
    /\ Len(history_time) > ArchiveMinSamples
    /\ ArchiveView[selected_gas].Time # history_time

\* C11: ClearHistory empties the archive in every state in which it is
\* issued, running or not.
C11_ClearEmptiesArchive ==
    [][ClearHistory => DOMAIN saved_runs' = {}]_vars

\* ClearHistory has acted during a run that is still in progress.
C11_Witness ==
    /\ lastCmd = "ClearHistory"
    /\ is_running
    /\ current_time > 0
    /\ DOMAIN saved_runs = {}

\* C12: history_time starts at 0, history_temp starts at ambient, and each
\* sample's time is exactly one dt after the previous sample's time.
C12_HistoryShape ==
    /\ history_time[1] = 0
    /\ history_temp[1] = AMBIENT_TEMP
    /\ \A k \in 1 .. Len(history_time) - 1 : history_time[k + 1] = history_time[k] + 1

\* A run that was stopped and started again has several samples.
C12_Witness ==
    /\ lastCmd = "Play"
    /\ Len(history_time) > 2
    /\ current_time < TerminalTicks

\* C13: the chart has the live series of the current gas first, followed by
\* exactly the archived entries of the other gases, each with its archived
\* series and color; no gas appears twice.
C13_ComparisonSeries ==
    \A ord \in ItemOrders(DOMAIN saved_runs) :
        LET chart == Chart(ord)
            others == DOMAIN saved_runs \ {gas_name}
        IN  /\ chart[1] = [Gas |-> gas_name, Time |-> history_time,
                           Temperature |-> history_temp, Color |-> Color(gas_name)]
            /\ Len(chart) = 1 + Cardinality(others)
            /\ {chart[k] : k \in 2 .. Len(chart)} =
                  {[Gas |-> g, Time |-> ArchiveView[g].Time,
                    Temperature |-> ArchiveView[g].Temp,
                    Color |-> ArchiveView[g].Color] : g \in others}
            /\ \A i, j \in 1 .. Len(chart) : i # j => chart[i].Gas # chart[j].Gas

\* The archive holds a run of the gas that is selected, and others.
C13_Witness ==
    /\ gas_name \in DOMAIN saved_runs
    /\ Cardinality(DOMAIN saved_runs) >= 3
    /\ Len(history_time) > 1

\* C14: the cooling rate does not increase when the concentration increases,
\* and is strictly positive.
C14_CoolingMonotone ==
    [][/\ cooling_rate(gas_name', concentration') > 0
       /\ (gas_name' = gas_name /\ concentration' >= concentration) =>
             cooling_rate(gas_name, concentration') <= cooling_rate(gas_name, concentration)]_vars

\* An insulating gas at full concentration cools more slowly than base_cooling.
C14_Witness ==
    /\ Insulation(gas_name) > 1
    /\ concentration = MaxConcentration
    /\ cooling_rate(gas_name, concentration) < base_cooling

\* C15: for a gas of insulation 1.0 the cooling rate is base_cooling at every
\* concentration, and for every gas it is base_cooling at concentration 0.
C15_BaselineCooling ==
    /\ Insulation(gas_name) = 1 => cooling_rate(gas_name, concentration) = base_cooling
    /\ concentration = 0 => cooling_rate(gas_name, concentration) = base_cooling

\* Methane at concentration 0.
C15_Witness ==
    /\ gas_name = "Methane (CH4)"
    /\ concentration = 0

\* C16: current_time, current_temp and the history change by a step only in
\* a state where is_running holds and current_time is below the terminal
\* time.
C16_StepOnlyWhileRunning ==
    [][(\/ current_time' > current_time
        \/ Len(history_time') > Len(history_time)
        \/ Len(history_temp') > Len(history_temp)
        \/ lastCmd' = "PhysicsStep" /\ current_temp' # current_temp)
       => (is_running /\ current_time < TerminalTicks)]_vars

\* The last step of a run: taken one dt below the terminal time.
C16_Witness ==
    /\ lastCmd = "PhysicsStep"
    /\ is_running
    /\ current_time = TerminalTicks

\* C18: current_time never exceeds the terminal time, and history_time has
\* one sample per step taken since the last reset plus the initial one, so
\* at most the number of steps of a full run plus one.
C18_StepsBounded ==
    /\ current_time <= TerminalTicks
    /\ Len(history_time) = current_time + 1
    /\ Len(history_time) <= TerminalTicks + 1

\* Play is pressed once more on a run that is complete.
C18_Witness ==
    /\ lastCmd = "Play"
    /\ is_running
    /\ current_time = TerminalTicks
    /\ Len(history_time) = TerminalTicks + 1

\* C19: Pause changes only is_running, ClearHistory changes only the
\* archive, Play changes only is_running, and the step after a Play
\* continues the paused history.
C19_Frames ==
    [][/\ Pause => /\ ~is_running'
                   /\ UNCHANGED <<current_time, current_temp, history_time,
                                  history_temp, selected_gas, saved_runs>>
       /\ ClearHistory => UNCHANGED <<is_running, current_time, current_temp,
                                      history_time, history_temp, selected_gas>>
       /\ Play => /\ is_running'
                  /\ UNCHANGED <<current_time, current_temp, history_time,
                                 history_temp, selected_gas, saved_runs>>
       /\ PhysicsStep => /\ SubSeq(history_time', 1, Len(history_time)) = history_time
                         /\ SubSeq(history_temp', 1, Len(history_temp)) = history_temp]_vars

\* A run is resumed in the middle.
C19_Witness ==
    /\ lastCmd = "Play"
    /\ is_running
    /\ current_time > 0
    /\ current_time < TerminalTicks
    /\ DOMAIN saved_runs # {}

TypeOK ==
    /\ is_running \in BOOLEAN
    /\ current_time \in 0 .. TerminalTicks
    /\ current_temp \in Int
    /\ Len(history_time) >= 1
    /\ selected_gas \in GasNames
    /\ gas_name \in GasNames
    /\ DOMAIN saved_runs \subseteq GasNames
    /\ intensity \in 1 .. 10
    /\ concentration \in 0 .. 1000
    /\ notices \in 0 .. MaxNotices
    /\ sliderMoves \in 0 .. MaxSliderMoves
====
